---- MODULE Spec2Model ----
(***************************************************************************)
(* The IOPGPS data gateway (custom_components/iopgps/iopgps_data.py) and   *)
(* its callers: the per-account registry, the token life cycle, the        *)
(* update cycle under the update lock, and the device / position fetches.  *)
(*                                                                         *)
(* Scheduling is asyncio's: a task runs without interruption from one      *)
(* await that really suspends (a network request, a wait for the lock) to  *)
(* the next, so every action below is one such run.                        *)
(***************************************************************************)
EXTENDS Integers, Sequences, FiniteSets, TLC

\* ------------------------------------------------------------------ bounds

\* The clock runs from 0 to MaxTime.
MaxTime == 2
\* At most MaxObjs gateway objects are ever constructed.
MaxObjs == 2

\* The battery levels a device may report lie within MaxOver of the range
\* the sensor displays.
MaxOver == 50

\* The range native_value clamps to.
BatteryMin == 0
BatteryMax == 100

Guids == {"g1", "g2"}
Sensors == {"s1", "s2", "s3"}
\* The caller that drives the gateway directly: the unit tests' calls and the
\* options flow.
Harness == "t1"
Procs == Sensors \cup {Harness}

\* The account each caller is configured for (config_entry.data['guid']).
GuidsOf(p) == IF p \in {"s1", "s2"} THEN {"g1"} ELSE Guids

\* Config entries: entry_name, user, key.
Entries ==
    { [entry_name |-> "n1", user |-> "u1", key |-> "k1"],
      [entry_name |-> "n2", user |-> "u2", key |-> "k2"] }

\* The config entry a caller passes to get_instance: a sensor platform passes
\* the entry stored for the account, the harness any entry.
EntriesOf(p, guid) ==
    IF p \in Sensors
    THEN {e \in Entries : e.entry_name = (IF guid = "g1" THEN "n1" ELSE "n2")}
    ELSE Entries

\* The expiresIn values the server answers with.
ExpiresInValues == {1, 2}
\* The device lists the server may hold.
ServerLists == { <<"d1">>, <<"d1", "d2">> }
\* How a request ends: HTTP 200, a non-200 answer with an error field,
\* a timeout, a transport failure, a non-200 answer without an error field.
Outcomes == {"ok", "api_error", "timeout", "transport", "unclassified"}

NoObj == 0
NoProc == "none"
\* Python's None as the value of self.token (the tests assign it).
NoToken == "None"
\* The values the tests assign to self.token.
TestTokens == {NoToken, "valid_token"}
NoAnswer ==
    [proc |-> NoProc, op |-> "none", kind |-> "none", outcome |-> "none",
     expiresIn |-> 0, entry |-> ""]

VARIABLES
    IOPGPSDataInstances,  \* the registry: guid -> object id (NoObj: no entry)
    objs,                 \* the heap: every IOPGPSData object constructed so far
    update_lock,          \* IOPGPSData.update_lock, one asyncio.Lock of the class
    handle,               \* per caller: the object it got from get_instance
    task,                 \* per caller: the call in progress and its locals
    now,                  \* int(time.time())
    server_devices,       \* the device list the server holds
    net_good,             \* from here on every request succeeds
    handled,              \* the answer (or the direct call) the step that led here handled
    batch,                \* how the sensors' calls in progress were started together
    sensor                \* a battery sensor: its _battery_level and what native_value returned

vars == <<IOPGPSDataInstances, objs, update_lock, handle, task, now,
          server_devices, net_good, handled, batch, sensor>>

\* --------------------------------------------------------------- objects

\* IOPGPSData.__init__: guid, entry_name, user and key are assigned; token and
\* expiresIn are only annotated in the class body and stay unassigned (attrs
\* is the set of the instance attributes among them that have been assigned);
\* devices and positions read the class attributes, two empty lists.
NewIOPGPSData(guid, e) ==
    [ guid |-> guid, entry_name |-> e.entry_name, user |-> e.user, key |-> e.key,
      attrs |-> {}, token |-> "", expiresIn |-> 0,
      devices |-> <<>>, positions |-> <<>> ]

\* Reading an attribute that was never assigned raises AttributeError.
Has(o, a) == a \in o.attrs

\* int(time.time()) > self.expiresIn
Expired(o) == now > o.expiresIn

\* The same comparison at a later reading of the clock.
ExpiredAt(o, time) == time > o.expiresIn

\* What int(time.time()) may return when it is read again within one run: the
\* value of the previous reading or, the second having turned, the next.
ClockReads == {time \in {now, now + 1} : time <= MaxTime}

\* The accessToken the server issues for a pair of credentials.
AccessToken(user, key) == "T-" \o user \o "-" \o key

\* IOPGPSDevice as update_devices_data assembles it for one listed device.
IOPGPSDevice(imei) ==
    [ imei |-> imei, name |-> "name-" \o imei, mobile |-> "mobile-" \o imei,
      battery_percentage |-> IF imei = "d1" THEN 57 ELSE 150 ]

\* A position record that carries the imei of the first device whatever the
\* device it was requested for.
IOPGPSPositionData_first_imei(imei) ==
    [ imei |-> "d1", lat |-> "lat-" \o imei, lng |-> "lng-" \o imei,
      gpsTime |-> 0, address |-> "addr-" \o imei ]

\* IOPGPSPositionData as update_position_data assembles it for one device.
IOPGPSPositionData(imei) ==
    [ imei |-> imei, lat |-> "lat-" \o imei, lng |-> "lng-" \o imei,
      gpsTime |-> 0, address |-> "addr-" \o imei ]

\* ----------------------------------------------------------------- tasks

NoSent == [auth |-> 0, list |-> 0, detail |-> 0, location |-> 0]

IdleTask ==
    [ pc |-> "idle", op |-> "none", forced |-> FALSE, result |-> "none",
      auth_ok |-> FALSE,
      user |-> "", key |-> "", hdr |-> "",
      json |-> <<>>, idx |-> 0, new_devices |-> <<>>,
      iter |-> <<>>, new_positions |-> <<>>, sent |-> NoSent ]

\* A call begins: its locals and its request counts start afresh.  auth_ok
\* records, within the options flow, that its refresh_token(True)
\* authenticated successfully.
NewCall(op, forced) == [IdleTask EXCEPT !.op = op, !.forced = forced]

\* A call ends; how it ended and the authentication requests it sent stay with
\* the caller.  async_update returned before the lock or at the check under
\* it ("skipped"), returned after its fetches ("updated"), get_authen_token
\* returned the token ("returned") or None ("returned_none"), refresh_token
\* returned after a successful ("refreshed") or a failed ("failed")
\* authentication or without one ("skipped"), or the call raised to its caller
\* ("AttributeError").
Finish(t, res) ==
    [IdleTask EXCEPT !.result = res, !.sent.auth = t.sent.auth]

\* An optional integer: <<>> is None, <<b>> the integer b.
None == <<>>

\* The battery sensor before any reading: _battery_level None, native_value
\* not read.
NoReading == [battery_level |-> None, read |-> FALSE, native_value |-> None]

\* The gateway's side of the initial state.
InitGateway ==
    /\ IOPGPSDataInstances = [g \in Guids |-> NoObj]
    /\ objs = <<>>
    /\ update_lock = [holder |-> NoProc, waiters |-> <<>>]
    /\ handle = [p \in Procs |-> [obj |-> NoObj, guid |-> "", fresh |-> FALSE]]
    /\ task = [p \in Procs |-> IdleTask]
    /\ now = 0
    /\ server_devices \in ServerLists
    /\ net_good = FALSE
    /\ handled = NoAnswer
    /\ batch = "none"

Init == InitGateway /\ sensor = NoReading

\* The levels self._battery_level may hold: None or a reported integer.
BatteryLevels ==
    {None} \cup {<<b>> : b \in (BatteryMin - MaxOver)..(BatteryMax + MaxOver)}

\* A battery sensor holding any level, its native_value not yet read.
InitBattery ==
    /\ InitGateway
    /\ sensor \in {[NoReading EXCEPT !.battery_level = l] : l \in BatteryLevels}

\* -------------------------------------------------------------- registry

\* A get_instance that constructs and registers an instance on every call.
get_instance_always_new(reg, heap, guid, e) ==
    [ reg |-> [reg EXCEPT ![guid] = Len(heap) + 1],
      heap |-> Append(heap, NewIOPGPSData(guid, e)),
      ret |-> Len(heap) + 1 ]

\* A get_instance that writes the entry passed to it into the instance it
\* finds registered.
get_instance_overwrites(reg, heap, guid, e) ==
    IF reg[guid] = NoObj
    THEN [ reg |-> [reg EXCEPT ![guid] = Len(heap) + 1],
           heap |-> Append(heap, NewIOPGPSData(guid, e)),
           ret |-> Len(heap) + 1 ]
    ELSE [ reg |-> reg,
           heap |-> [heap EXCEPT ![reg[guid]].entry_name = e.entry_name,
                                 ![reg[guid]].user = e.user,
                                 ![reg[guid]].key = e.key],
           ret |-> reg[guid] ]

\* A get_instance that, finding no registry entry, registers again an object
\* constructed for the guid earlier.
get_instance_reuses(reg, heap, guid, e) ==
    IF reg[guid] # NoObj
    THEN [ reg |-> reg, heap |-> heap, ret |-> reg[guid] ]
    ELSE IF \E i \in 1..Len(heap) : heap[i].guid = guid
    THEN LET i == CHOOSE i \in 1..Len(heap) : heap[i].guid = guid
         IN [ reg |-> [reg EXCEPT ![guid] = i], heap |-> heap, ret |-> i ]
    ELSE [ reg |-> [reg EXCEPT ![guid] = Len(heap) + 1],
           heap |-> Append(heap, NewIOPGPSData(guid, e)),
           ret |-> Len(heap) + 1 ]

\* get_instance: the registry and the heap after the call, and the object it
\* returns.
get_instance(reg, heap, guid, e) ==
    IF reg[guid] = NoObj
    THEN [ reg |-> [reg EXCEPT ![guid] = Len(heap) + 1],
           heap |-> Append(heap, NewIOPGPSData(guid, e)),
           ret |-> Len(heap) + 1 ]
    ELSE [ reg |-> reg, heap |-> heap, ret |-> reg[guid] ]

\* A caller obtains its handle: IOPGPSData.get_instance(guid, entry_name, user, key).
\* A sensor platform does so once per setup; the harness turns from one
\* account to the other at will.
GetInstance(p, guid, e) ==
    /\ task[p].pc = "idle"
    /\ p \in Sensors => ~handle[p].fresh
    /\ p = Harness => handle[p].guid # guid \/ ~handle[p].fresh
    /\ guid \in GuidsOf(p)
    /\ e \in EntriesOf(p, guid)
    /\ LET r == get_instance(IOPGPSDataInstances, objs, guid, e)
       IN /\ Len(r.heap) <= MaxObjs
          /\ IOPGPSDataInstances' = r.reg
          /\ objs' = r.heap
          /\ handle' = [handle EXCEPT ![p] =
                          [obj |-> r.ret, guid |-> guid, fresh |-> TRUE]]
    /\ UNCHANGED <<update_lock, task, now, server_devices, net_good>>
    /\ handled' = [proc |-> p, op |-> "get_instance", kind |-> "call",
                   outcome |-> "none", expiresIn |-> 0, entry |-> e.entry_name]
    /\ UNCHANGED <<batch, sensor>>

\* IOPGPSData.clean_instances(): the registry is emptied; the objects live on
\* in the hands of whoever holds them.  handle[q].fresh records that q's
\* handle was obtained since the last reset.
clean_instances(p) ==
    /\ p = Harness
    /\ task[p].pc = "idle"
    /\ \E g \in Guids : IOPGPSDataInstances[g] # NoObj
    /\ IOPGPSDataInstances' = [g \in Guids |-> NoObj]
    /\ handle' = [q \in Procs |-> [handle[q] EXCEPT !.fresh = FALSE]]
    /\ UNCHANGED <<objs, update_lock, task, now, server_devices, net_good>>
    /\ handled' = [proc |-> p, op |-> "clean_instances", kind |-> "call",
                   outcome |-> "none", expiresIn |-> 0, entry |-> ""]
    /\ UNCHANGED <<batch, sensor>>

\* ------------------------------------------------------------- requests

\* An assignment through self that binds every attribute of every instance:
\* the lists and the credentials' token live once, in the class.
SetAttrs_in_class(heap, id, o) ==
    [i \in DOMAIN heap |->
        IF i = id THEN o
        ELSE [heap[i] EXCEPT !.devices = o.devices, !.positions = o.positions,
                             !.token = o.token, !.expiresIn = o.expiresIn,
                             !.attrs = o.attrs]]

\* self.<attribute> = value: the attributes of the instance id become o's;
\* the assignment binds instance attributes and touches no other object.
SetAttrs(heap, id, o) == [heap EXCEPT ![id] = o]

\* A get_authen_token that forgets the token when the request fails.
StoreAuthen_unset_on_failure(o, t, outcome, expiresIn) ==
    IF outcome = "ok"
    THEN [o EXCEPT !.expiresIn = expiresIn,
                   !.token = "T-" \o t.user \o "-" \o t.key,
                   !.attrs = @ \cup {"token", "expiresIn"}]
    ELSE [o EXCEPT !.token = NoToken, !.expiresIn = 0]

\* get_authen_token from the answer of its POST: on HTTP 200 expiresIn and
\* token are assigned from the answer; every failure is caught and leaves
\* both as they were.
StoreAuthen(o, t, outcome, expiresIn) ==
    IF outcome = "ok"
    THEN [o EXCEPT !.expiresIn = expiresIn,
                   !.token = AccessToken(t.user, t.key),
                   !.attrs = @ \cup {"token", "expiresIn"}]
    ELSE o

\* An update_devices_data that stores the list while it is being built.
AfterDetail_incremental(o, nd, last) == [o EXCEPT !.devices = nd]

\* self.devices after a detail answer was appended to new_devices: the list
\* is assigned once, after the loop over json["data"].
AfterDetail(o, nd, last) == IF last THEN [o EXCEPT !.devices = nd] ELSE o

\* get_authen_token up to the await of its POST: the timestamp is taken and
\* the signature computed from self.key, the payload carries self.user.
SendAuth(t, o) ==
    [t EXCEPT !.pc = "auth_wait", !.user = o.user, !.key = o.key,
              !.sent.auth = @ + 1]

\* get_standard_headers: one entry, the token formatted as a string (None
\* gives "None").
get_standard_headers(o) == [accessToken |-> o.token]

\* An update_devices_data that issues the device-list GET a second time.
SendList_again(t, o) ==
    [t EXCEPT !.pc = "list_wait", !.hdr = o.token, !.json = <<>>, !.idx = 0,
              !.new_devices = <<>>, !.sent.list = @ + 2]

\* update_devices_data up to the await of the device-list GET;
\* get_standard_headers reads self.token once, for the list and every detail
\* request of this fetch.
SendList(t, o) ==
    [t EXCEPT !.pc = "list_wait", !.hdr = get_standard_headers(o).accessToken,
              !.json = <<>>, !.idx = 0,
              !.new_devices = <<>>, !.sent.list = @ + 1]

\* The detail GET for json["data"][i].
SendDetail(t, i) ==
    [t EXCEPT !.pc = "detail_wait", !.idx = i, !.sent.detail = @ + 1]

\* The location GET for the i-th device of the list under iteration.
SendLocation(t, i) ==
    [t EXCEPT !.pc = "location_wait", !.idx = i, !.sent.location = @ + 1]

\* An update_position_data that iterates over the devices of the list answer
\* instead of self.devices.
StartPositions_from_json(t, o) ==
    IF t.json = <<>>
    THEN [t |-> t, o |-> [o EXCEPT !.positions = <<>>], done |-> TRUE]
    ELSE [t |-> [t EXCEPT !.pc = "location_wait", !.idx = 1,
                          !.sent.location = @ + 1, !.hdr = o.token,
                          !.iter = [i \in 1..Len(t.json) |->
                                      [imei |-> t.json[i], name |-> "", mobile |-> "",
                                       battery_percentage |-> 0]],
                          !.new_positions = <<>>],
          o |-> o, done |-> FALSE]

\* update_position_data from its start: the headers are built, the loop over
\* self.devices begins.  With no device the empty list is stored at once and
\* the call is over (done is TRUE).
StartPositions(t, o) ==
    IF o.devices = <<>>
    THEN [t |-> t, o |-> [o EXCEPT !.positions = <<>>], done |-> TRUE]
    ELSE [t |-> SendLocation([t EXCEPT !.hdr = get_standard_headers(o).accessToken,
                                       !.iter = o.devices,
                                       !.new_positions = <<>>], 1),
          o |-> o, done |-> FALSE]

\* What the except clauses of update_devices_data leave in self.devices.
DevicesAfterFailure(o, outcome) ==
    IF outcome = "timeout" THEN o.devices ELSE <<>>

\* What the except clauses of update_position_data leave in self.positions.
PositionsAfterFailure(o, outcome) ==
    IF outcome = "timeout" THEN o.positions ELSE <<>>

\* A refresh_token that takes forced the wrong way round.
NeedsRefresh_unless_forced(o, forced, time) ==
    ExpiredAt(o, time) \/ o.token = NoToken \/ ~forced

\* refresh_token's condition, the token being assigned and the clock reading
\* time.
NeedsRefresh(o, forced, time) ==
    ExpiredAt(o, time) \/ o.token = NoToken \/ forced

\* async_update's check, made before the lock and again under it.
SkipUpdate(o, forced) == Expired(o) /\ ~forced

\* async_update from the second check on, the lock held: the check, then
\* refresh_token() with its default forced=False, which reads the clock
\* again (time), then update_devices_data.
\* unlock is TRUE when the call left the lock's block in this same run.
UpdateLocked(t, o, time) ==
    IF SkipUpdate(o, t.forced)
    THEN [t |-> Finish(t, "skipped"), unlock |-> TRUE]
    ELSE IF ~ExpiredAt(o, time) /\ ~Has(o, "token")
    THEN [t |-> Finish(t, "AttributeError"), unlock |-> TRUE]
    ELSE IF NeedsRefresh(o, FALSE, time)
    THEN [t |-> SendAuth(t, o), unlock |-> FALSE]
    ELSE [t |-> SendList(t, o), unlock |-> FALSE]

\* A lock whose acquire never waits.
LockFree_always(L) == TRUE

\* asyncio.Lock.acquire returns at once when the lock is free and nobody waits.
LockFree(L) == L.holder = NoProc /\ L.waiters = <<>>

\* async_update from its first line: the check, the lock, the locked part.
EnterUpdate(p, t, o, L, time) ==
    IF ~Has(o, "expiresIn")
    THEN [t |-> Finish(t, "AttributeError"), lock |-> L]
    ELSE IF SkipUpdate(o, t.forced)
    THEN [t |-> Finish(t, "skipped"), lock |-> L]
    ELSE IF LockFree(L)
    THEN LET b == UpdateLocked(t, o, time)
         IN [t |-> b.t, lock |-> IF b.unlock THEN L ELSE [L EXCEPT !.holder = p]]
    ELSE [t |-> [t EXCEPT !.pc = "lock_wait"],
          lock |-> [L EXCEPT !.waiters = Append(@, p)]]

\* An async with block that keeps the lock when it is left.
Release_never(L) == L

\* Leaving the async with block.
Release(L) == [L EXCEPT !.holder = NoProc]

\* ------------------------------------------------------------ the callers

TheObj(p) == objs[handle[p].obj]

\* A poll tick: the platform creates the task of a sensor's async_update().
Call(p) ==
    /\ p \in Sensors
    /\ task[p].pc = "idle"
    /\ handle[p].obj # NoObj
    /\ task' = [task EXCEPT ![p] = [NewCall("update", FALSE) EXCEPT !.pc = "start"]]
    /\ UNCHANGED <<IOPGPSDataInstances, objs, update_lock, handle, now,
                   server_devices, net_good>>
    /\ handled' = NoAnswer
    /\ batch' = "none"
    /\ UNCHANGED sensor

\* Whether a refresh is due on o: the token is absent or expired.
RefreshDue(o) ==
    ~Has(o, "token") \/ o.token = NoToken \/ ~Has(o, "expiresIn") \/ Expired(o)

\* A poll tick of the platform for the sensors in S, all entities of one
\* instance: their async_update() tasks are created together, before any of
\* them runs.
PollTick(S) ==
    /\ \A p \in S : task[p].pc = "idle" /\ handle[p].obj # NoObj
    /\ \A p, q \in S : handle[p].obj = handle[q].obj
    /\ task' = [p \in Procs |->
                  IF p \in S THEN [NewCall("update", FALSE) EXCEPT !.pc = "start"]
                  ELSE task[p]]
    /\ batch' = IF \A p \in S : RefreshDue(TheObj(p)) THEN "due" ELSE "not_due"
    /\ handled' = NoAnswer
    /\ UNCHANGED sensor
    /\ UNCHANGED <<IOPGPSDataInstances, objs, update_lock, handle, now,
                   server_devices, net_good>>

\* The task's first run: async_update(forced=False) up to its first suspension.
Begin(p) ==
    /\ task[p].pc = "start"
    /\ \E time \in ClockReads :
          LET r == EnterUpdate(p, task[p], TheObj(p), update_lock, time)
          IN /\ task' = [task EXCEPT ![p] = r.t]
             /\ update_lock' = r.lock
             /\ now' = time
    /\ UNCHANGED <<IOPGPSDataInstances, objs, handle, server_devices, net_good>>
    /\ handled' = NoAnswer
    /\ UNCHANGED <<batch, sensor>>

\* A waiter is woken: it takes the lock and runs the locked part.
LockWake(p) ==
    /\ task[p].pc = "lock_wait"
    /\ update_lock.holder = NoProc
    /\ update_lock.waiters # <<>>
    /\ Head(update_lock.waiters) = p
    /\ \E time \in ClockReads :
          LET L == [update_lock EXCEPT !.waiters = Tail(@)]
              b == UpdateLocked(task[p], TheObj(p), time)
          IN /\ task' = [task EXCEPT ![p] = b.t]
             /\ update_lock' = IF b.unlock THEN L ELSE [L EXCEPT !.holder = p]
             /\ now' = time
    /\ UNCHANGED <<IOPGPSDataInstances, objs, handle, server_devices, net_good>>
    /\ handled' = NoAnswer
    /\ UNCHANGED <<batch, sensor>>

\* test_login: get_authen_token() called directly on the instance.
Login(p) ==
    /\ p = Harness
    /\ task[p].pc = "idle"
    /\ handle[p].obj # NoObj
    /\ task' = [task EXCEPT ![p] = SendAuth(NewCall("login", FALSE), TheObj(p))]
    /\ UNCHANGED <<IOPGPSDataInstances, objs, update_lock, handle, now,
                   server_devices, net_good>>
    /\ handled' = NoAnswer
    /\ UNCHANGED <<batch, sensor>>

\* The tests' assignment self.data.token = v (None in test_refresh_token,
\* a string in test_refresh_token_skipped and test_get_standard_headers).
SetToken(p, v) ==
    /\ p = Harness
    /\ task[p].pc = "idle"
    /\ handle[p].obj # NoObj
    /\ v \in TestTokens
    /\ TheObj(p).token # v \/ ~Has(TheObj(p), "token")
    /\ objs' = SetAttrs(objs, handle[p].obj,
                        [TheObj(p) EXCEPT !.token = v, !.attrs = @ \cup {"token"}])
    /\ UNCHANGED <<IOPGPSDataInstances, update_lock, handle, task, now,
                   server_devices, net_good>>
    /\ handled' = NoAnswer
    /\ UNCHANGED <<batch, sensor>>

\* refresh_token(forced) from its first line up to the await of the POST in
\* get_authen_token: the condition reads self.expiresIn, then (the token not
\* being expired) self.token, and either raises, or skips, or authenticates.
RefreshTokenStart(t, o) ==
    IF ~Has(o, "expiresIn")
    THEN Finish(t, "AttributeError")
    ELSE IF ~Expired(o) /\ ~Has(o, "token")
    THEN Finish(t, "AttributeError")
    ELSE IF NeedsRefresh(o, t.forced, now)
    THEN SendAuth(t, o)
    ELSE Finish(t, "skipped")

\* test_refresh_token, test_refresh_token_skipped: refresh_token called
\* directly on the instance.
RefreshToken(p, forced) ==
    /\ p = Harness
    /\ task[p].pc = "idle"
    /\ handle[p].obj # NoObj
    /\ task' = [task EXCEPT ![p] = RefreshTokenStart(NewCall("refresh", forced), TheObj(p))]
    /\ UNCHANGED <<IOPGPSDataInstances, objs, update_lock, handle, now,
                   server_devices, net_good>>
    /\ handled' = [proc |-> p, op |-> "refresh", kind |-> "call",
                   outcome |-> "none", expiresIn |-> 0, entry |-> ""]
    /\ UNCHANGED <<batch, sensor>>

\* The outcomes the network may produce.
Allowed(outcome) == net_good => outcome = "ok"

\* get_authen_token from the answer of its POST, then whatever follows it in
\* the caller: nothing (login), the rest of refresh_token (a direct call of
\* it), update_devices_data (an update cycle), or async_update(True) (the
\* options flow, after its refresh_token(True)).
AuthResponse(p, outcome, expiresIn) ==
    /\ task[p].pc = "auth_wait"
    /\ Allowed(outcome)
    /\ LET t == task[p]
           o == TheObj(p)
           o2 == StoreAuthen(o, t, outcome, expiresIn)
       IN CASE t.op = "login" ->
                 /\ objs' = SetAttrs(objs, handle[p].obj, o2)
                 /\ task' = [task EXCEPT ![p] =
                       Finish(t, IF outcome = "ok" THEN "returned" ELSE "returned_none")]
                 /\ UNCHANGED <<update_lock, now>>
            [] t.op = "refresh" ->
                 /\ objs' = SetAttrs(objs, handle[p].obj, o2)
                 /\ task' = [task EXCEPT ![p] =
                       Finish(t, IF outcome = "ok" THEN "refreshed" ELSE "failed")]
                 /\ UNCHANGED <<update_lock, now>>
            [] t.op = "update" ->
                 /\ objs' = SetAttrs(objs, handle[p].obj, o2)
                 /\ task' = [task EXCEPT ![p] = SendList(t, o2)]
                 /\ UNCHANGED <<update_lock, now>>
            [] t.op = "options" ->
                 \E time \in ClockReads :
                    LET r == EnterUpdate(p, [t EXCEPT !.op = "update",
                                                      !.auth_ok = (outcome = "ok")],
                                         o2, update_lock, time)
                    IN /\ objs' = SetAttrs(objs, handle[p].obj, o2)
                       /\ task' = [task EXCEPT ![p] = r.t]
                       /\ update_lock' = r.lock
                       /\ now' = time
    /\ UNCHANGED <<IOPGPSDataInstances, handle, server_devices, net_good>>
    /\ handled' = [proc |-> p, op |-> task[p].op, kind |-> "auth",
                   outcome |-> outcome,
                   expiresIn |-> IF outcome = "ok" THEN expiresIn ELSE 0,
                   entry |-> ""]
    /\ UNCHANGED <<batch, sensor>>

\* The end of update_position_data inside async_update: the locked block is
\* left and the call returns.
StoreAndReturn(p, o) ==
    /\ objs' = SetAttrs(objs, handle[p].obj, o)
    /\ task' = [task EXCEPT ![p] = Finish(task[p], "updated")]
    /\ update_lock' = Release(update_lock)

\* The end of update_devices_data inside async_update: self.devices is o's,
\* and update_position_data starts in the same run.
DevicesDone(p, t, o) ==
    LET s == StartPositions(t, o)
    IN IF s.done
       THEN StoreAndReturn(p, s.o)
       ELSE /\ objs' = SetAttrs(objs, handle[p].obj, s.o)
            /\ task' = [task EXCEPT ![p] = s.t]
            /\ UNCHANGED update_lock

\* update_devices_data from the answer of the device-list GET.
ListResponse(p, outcome) ==
    /\ task[p].pc = "list_wait"
    /\ Allowed(outcome)
    /\ LET t == task[p]
           o == TheObj(p)
       IN IF outcome = "ok"
          THEN IF server_devices = <<>>
               THEN DevicesDone(p, t, [o EXCEPT !.devices = <<>>])
               ELSE /\ task' = [task EXCEPT ![p] =
                                  SendDetail([t EXCEPT !.json = server_devices], 1)]
                    /\ UNCHANGED <<objs, update_lock>>
          ELSE DevicesDone(p, t, [o EXCEPT !.devices = DevicesAfterFailure(o, outcome)])
    /\ UNCHANGED <<IOPGPSDataInstances, handle, now, server_devices, net_good>>
    /\ handled' = [proc |-> p, op |-> task[p].op, kind |-> "list",
                   outcome |-> outcome, expiresIn |-> 0, entry |-> ""]
    /\ UNCHANGED <<batch, sensor>>

\* update_devices_data from the answer of one detail GET.
DetailResponse(p, outcome) ==
    /\ task[p].pc = "detail_wait"
    /\ Allowed(outcome)
    /\ LET t == task[p]
           o == TheObj(p)
           nd == Append(t.new_devices, IOPGPSDevice(t.json[t.idx]))
       IN IF outcome = "ok"
          THEN IF t.idx = Len(t.json)
               THEN DevicesDone(p, [t EXCEPT !.new_devices = nd],
                                AfterDetail(o, nd, TRUE))
               ELSE /\ task' = [task EXCEPT ![p] =
                                  SendDetail([t EXCEPT !.new_devices = nd], t.idx + 1)]
                    /\ objs' = SetAttrs(objs, handle[p].obj, AfterDetail(o, nd, FALSE))
                    /\ UNCHANGED update_lock
          ELSE DevicesDone(p, t, [o EXCEPT !.devices = DevicesAfterFailure(o, outcome)])
    /\ UNCHANGED <<IOPGPSDataInstances, handle, now, server_devices, net_good>>
    /\ handled' = [proc |-> p, op |-> task[p].op, kind |-> "detail",
                   outcome |-> outcome, expiresIn |-> 0, entry |-> ""]
    /\ UNCHANGED <<batch, sensor>>

\* update_position_data from the answer of one location GET.
LocationResponse(p, outcome) ==
    /\ task[p].pc = "location_wait"
    /\ Allowed(outcome)
    /\ LET t == task[p]
           o == TheObj(p)
           np == Append(t.new_positions, IOPGPSPositionData(t.iter[t.idx].imei))
       IN IF outcome = "ok"
          THEN IF t.idx = Len(t.iter)
               THEN StoreAndReturn(p, [o EXCEPT !.positions = np])
               ELSE /\ task' = [task EXCEPT ![p] =
                                  SendLocation([t EXCEPT !.new_positions = np], t.idx + 1)]
                    /\ UNCHANGED <<objs, update_lock>>
          ELSE StoreAndReturn(p, [o EXCEPT !.positions = PositionsAfterFailure(o, outcome)])
    /\ UNCHANGED <<IOPGPSDataInstances, handle, now, server_devices, net_good>>
    /\ handled' = [proc |-> p, op |-> task[p].op, kind |-> "location",
                   outcome |-> outcome, expiresIn |-> 0, entry |-> ""]
    /\ UNCHANGED <<batch, sensor>>

\* OptionsFlowHandler.async_step_init with valid input e for the account guid:
\* the instance is looked up with get_instance (and constructed if the
\* registry has none), its entry_name, user and key are overwritten, and
\* refresh_token(True) runs up to the await of its POST (or raises); were the
\* refresh skipped, async_update(True) would follow in the same run.
OptionsFlow(p, guid, e) ==
    /\ p = Harness
    /\ task[p].pc = "idle"
    /\ LET g == get_instance(IOPGPSDataInstances, objs, guid, e)
           o == [g.heap[g.ret] EXCEPT !.entry_name = e.entry_name,
                                      !.user = e.user, !.key = e.key]
           t == NewCall("options", TRUE)
           r == IF ~Has(o, "expiresIn")
                THEN [t |-> Finish(t, "AttributeError"), lock |-> update_lock]
                ELSE IF NeedsRefresh(o, TRUE, now)
                THEN [t |-> SendAuth(t, o), lock |-> update_lock]
                ELSE EnterUpdate(p, [t EXCEPT !.op = "update"], o, update_lock, now)
       IN /\ Len(g.heap) <= MaxObjs
          /\ IOPGPSDataInstances' = g.reg
          /\ handle' = [handle EXCEPT ![p] =
                          [obj |-> g.ret, guid |-> guid, fresh |-> TRUE]]
          /\ objs' = SetAttrs(g.heap, g.ret, o)
          /\ task' = [task EXCEPT ![p] = r.t]
          /\ update_lock' = r.lock
    /\ UNCHANGED <<now, server_devices, net_good>>
    /\ handled' = NoAnswer
    /\ UNCHANGED <<batch, sensor>>

\* A native_value that only clamps from below.
native_value_unbounded_above(level) ==
    IF level # None
    THEN IF level[1] < BatteryMin THEN <<BatteryMin>> ELSE level
    ELSE None

\* IOPGPSBatterySensor.native_value for a stored _battery_level.
native_value(level) ==
    IF level # None
    THEN LET new_value == level[1]
         IN IF new_value < BatteryMin THEN <<BatteryMin>>
            ELSE IF new_value > BatteryMax THEN <<BatteryMax>>
            ELSE <<new_value>>
    ELSE None

\* The platform reads the sensor's native_value property.
ReadNativeValue ==
    /\ ~sensor.read
    /\ sensor' = [sensor EXCEPT !.read = TRUE,
                                !.native_value = native_value(sensor.battery_level)]
    /\ UNCHANGED <<IOPGPSDataInstances, objs, update_lock, handle, task, now,
                   server_devices, net_good, batch>>
    /\ handled' = NoAnswer

\* The account's devices change on the server.
ServerChange(l) ==
    /\ l \in ServerLists
    /\ l # server_devices
    /\ server_devices' = l
    /\ UNCHANGED <<IOPGPSDataInstances, objs, update_lock, handle, task, now, net_good>>
    /\ handled' = NoAnswer
    /\ UNCHANGED <<batch, sensor>>

Tick ==
    /\ now < MaxTime
    /\ now' = now + 1
    /\ UNCHANGED <<IOPGPSDataInstances, objs, update_lock, handle, task,
                   server_devices, net_good>>
    /\ handled' = NoAnswer
    /\ UNCHANGED <<batch, sensor>>

\* From here on the server answers every request with HTTP 200.
GoodNetwork ==
    /\ ~net_good
    /\ net_good' = TRUE
    /\ UNCHANGED <<IOPGPSDataInstances, objs, update_lock, handle, task, now,
                   server_devices>>
    /\ handled' = NoAnswer
    /\ UNCHANGED <<batch, sensor>>

\* The answers of the network to the callers in P.
Answers(P) ==
    \/ \E p \in P, outcome \in Outcomes, expiresIn \in ExpiresInValues :
            AuthResponse(p, outcome, expiresIn)
    \/ \E p \in P, outcome \in Outcomes : ListResponse(p, outcome)
    \/ \E p \in P, outcome \in Outcomes : DetailResponse(p, outcome)
    \/ \E p \in P, outcome \in Outcomes : LocationResponse(p, outcome)

\* One account, a sensor polling and the harness with its login and its
\* options flow.
Next ==
    \/ \E p \in {"s1", Harness}, e \in Entries : GetInstance(p, "g1", e)
    \/ Call("s1")
    \/ Begin("s1")
    \/ \E p \in {"s1", Harness} : LockWake(p)
    \/ Login(Harness)
    \/ \E e \in Entries : OptionsFlow(Harness, "g1", e)
    \/ Answers({"s1", Harness})
    \/ \E l \in ServerLists : ServerChange(l)
    \/ Tick

Spec == Init /\ [][Next]_vars

\* One account, its three sensors polled together, and the harness's login.
NextPoll ==
    \/ \E p \in Procs, e \in Entries : GetInstance(p, "g1", e)
    \/ PollTick(Sensors)
    \/ \E p \in Sensors : Begin(p)
    \/ \E p \in Sensors : LockWake(p)
    \/ Login(Harness)
    \/ Answers(Procs)
    \/ Tick

SpecPoll == Init /\ [][NextPoll]_vars

\* Two accounts, every caller, the registry's reset; every caller obtains one
\* handle per reset and the harness logs in, no update cycle runs and the
\* clock stands still.
NextRegistry ==
    \/ \E p \in Sensors, g \in Guids, e \in Entries : GetInstance(p, g, e)
    \/ \E g \in Guids, e \in Entries :
            ~handle[Harness].fresh /\ GetInstance(Harness, g, e)
    \/ \E p \in Procs : clean_instances(p)
    \/ Login(Harness)
    \/ \E outcome \in Outcomes, expiresIn \in ExpiresInValues :
            AuthResponse(Harness, outcome, expiresIn)

SpecRegistry == Init /\ [][NextRegistry]_vars

\* One account, a sensor polling it and the harness, which logs in and resets
\* the registry as the tests' setUp does; after a reset the callers obtain
\* their handles anew.  The clock stands still.
NextReset ==
    \/ \E p \in {"s1", Harness}, e \in Entries : GetInstance(p, "g1", e)
    \/ clean_instances(Harness)
    \/ Call("s1")
    \/ Begin("s1") /\ now' = now
    \/ Login(Harness)
    \/ Answers({"s1", Harness})

SpecReset == Init /\ [][NextReset]_vars

\* A battery sensor whose native_value is read.
NextBattery == ReadNativeValue

SpecBattery == InitBattery /\ [][NextBattery]_vars

\* One account and the harness alone: it assigns the token as the tests do,
\* logs in, and calls refresh_token directly.
NextRefresh ==
    \/ \E e \in Entries : GetInstance(Harness, "g1", e)
    \/ \E v \in TestTokens : SetToken(Harness, v)
    \/ \E forced \in BOOLEAN : RefreshToken(Harness, forced)
    \/ Login(Harness)
    \/ \E outcome \in Outcomes, expiresIn \in ExpiresInValues :
            AuthResponse(Harness, outcome, expiresIn)
    \/ Tick

SpecRefresh == Init /\ [][NextRefresh]_vars

\* Two accounts, a sensor polling each, and the harness logging in on either
\* with the entry stored for the account; the clock stands still.
NextTwo ==
    \/ \E e \in Entries : GetInstance("s1", "g1", e)
    \/ \E e \in Entries : GetInstance("s3", "g2", e)
    \/ \E g \in Guids : \E e \in EntriesOf("s3", g) : GetInstance(Harness, g, e)
    \/ \E p \in {"s1", "s3"} : Call(p)
    \/ \E p \in {"s1", "s3"} : Begin(p) /\ now' = now
    \/ \E p \in {"s1", "s3"} : LockWake(p) /\ now' = now
    \/ Login(Harness)
    \/ Answers({"s1", "s3", Harness})

SpecTwo == Init /\ [][NextTwo]_vars

\* One account and one sensor whose poll ticks keep coming; the harness may
\* log in while the network is still unreliable, and from some point on the
\* network answers every request with success and only the sensor calls.
\* With a single caller of async_update nobody ever waits for the lock.
NextLive ==
    \/ \E p \in {"s1", Harness}, e \in Entries : GetInstance(p, "g1", e)
    \/ Call("s1")
    \/ Begin("s1")
    \/ ~net_good /\ Login(Harness)
    \/ Answers({"s1", Harness})
    \/ GoodNetwork
    \/ Tick

\* The event loop runs every task that can run, the platform keeps polling,
\* and every request is answered; nothing obliges the harness to log in or
\* the clock to advance.
Fairness ==
    /\ WF_vars(\E e \in Entries : GetInstance("s1", "g1", e))
    /\ WF_vars(Call("s1"))
    /\ WF_vars(Begin("s1"))
    /\ WF_vars(Answers({"s1", Harness}))
    /\ WF_vars(GoodNetwork)

SpecLive == Init /\ [][NextLive]_vars /\ Fairness

\* One account polled by two sensors, each by its own timer, and the harness's
\* login, every caller passing the entry stored for the account; the server
\* holds two devices throughout and requests end in every way they can.
InitFair == Init /\ server_devices = <<"d1", "d2">>

NextFair ==
    \/ \E p \in {"s1", "s2", Harness} :
          \E e \in EntriesOf("s1", "g1") : GetInstance(p, "g1", e)
    \/ \E p \in {"s1", "s2"} : Call(p)
    \/ \E p \in {"s1", "s2"} : Begin(p)
    \/ \E p \in {"s1", "s2"} : LockWake(p)
    \/ Login(Harness)
    \/ Answers({"s1", "s2", Harness})
    \/ Tick

\* The event loop runs every task that is ready, a created task and a waiter
\* the lock's release has woken alike, and every request of a sensor's call
\* terminates; nothing obliges the platform to poll, the harness to log in or
\* the clock to advance.
FairnessFair ==
    \A p \in {"s1", "s2"} :
        /\ WF_vars(Begin(p))
        /\ WF_vars(LockWake(p))
        /\ WF_vars(Answers({p}))

SpecFair == InitFair /\ [][NextFair]_vars /\ FairnessFair

\* ------------------------------------------------------------------ claims

\* The handles obtained since the last reset.
Fresh(p) == handle[p].obj # NoObj /\ handle[p].fresh

\* What a caller reads through its handle.
ReadToken(p) ==
    IF Has(TheObj(p), "token") THEN TheObj(p).token ELSE "AttributeError"

\* C1: among the handles that get_instance returned since the last reset, two
\* are the same instance if and only if they were asked for the same
\* accountId; the registry maps every accountId it holds to an instance of
\* that accountId, and no instance is registered for two accountIds; and the
\* token written through one handle is what every other handle for the same
\* accountId reads.
C1_SameInstanceIffSameAccount ==
    /\ \A p, q \in Procs :
          Fresh(p) /\ Fresh(q) =>
             (handle[p].obj = handle[q].obj <=> handle[p].guid = handle[q].guid)
    /\ \A g \in Guids :
          IOPGPSDataInstances[g] # NoObj =>
             /\ IOPGPSDataInstances[g] \in 1..Len(objs)
             /\ objs[IOPGPSDataInstances[g]].guid = g
             /\ \A p \in Procs :
                   Fresh(p) /\ handle[p].guid = g => handle[p].obj = IOPGPSDataInstances[g]
    /\ \A p, q \in Procs :
          Fresh(p) /\ Fresh(q) /\ handle[p].guid = handle[q].guid =>
             ReadToken(p) = ReadToken(q)

\* C1's case: two callers hold handles for one accountId, a third holds a
\* handle for another accountId, and the token stored through the harness's
\* handle is read through a sensor's.
C1_Witness ==
    /\ Fresh("s1") /\ Fresh(Harness) /\ Fresh("s3")
    /\ handle["s1"].guid = handle[Harness].guid
    /\ handle["s3"].guid # handle["s1"].guid
    /\ task[Harness].result = "returned"
    /\ ReadToken("s1") = AccessToken(TheObj(Harness).user, TheObj(Harness).key)
    /\ ReadToken("s3") = "AttributeError"
\* The token is present and not expired.
TokenValid(o) ==
    Has(o, "token") /\ o.token # NoToken /\ Has(o, "expiresIn") /\ ~Expired(o)

\* The same when the clock reads time.
TokenValidAt(o, time) ==
    Has(o, "token") /\ o.token # NoToken /\ Has(o, "expiresIn") /\ ~ExpiredAt(o, time)

\* The calls of the batch have all ended.
BatchOver == \A p \in Sensors : task[p].pc = "idle" /\ task[p].result # "none"

\* C2: when the three sensors' update(forced=false) calls were started
\* together while a refresh was due, then once all three have ended exactly
\* one of them has run the fetch sequence, with one token refresh, and the
\* other two have returned at a check without any network work.
C2_OneFetchSequencePerBatch ==
    (batch = "due" /\ BatchOver) =>
        \E p \in Sensors :
            /\ task[p].result = "updated"
            /\ task[p].sent.auth = 1
            /\ \A q \in Sensors \ {p} :
                  task[q].result = "skipped" /\ task[q].sent.auth = 0

\* C3: update(forced=false) that starts while the token is present and not
\* expired ends in that same run: it returns, the lock is as it was, no
\* request has been sent, and the instance is unchanged.
C3_FastPathWhenTokenValid ==
    [][\A p \in Sensors :
          (task[p].pc = "start" /\ task'[p].pc # "start" /\ ~task[p].forced
             /\ TokenValid(TheObj(p)))
          => /\ task'[p].pc = "idle"
             /\ task'[p].result = "skipped"
             /\ task'[p].sent = NoSent
             /\ update_lock' = update_lock
             /\ objs' = objs]_vars

\* C4: no update() call of a sensor ends by raising to its caller.
C4_UpdateNeverRaises ==
    \A p \in Sensors : task[p].result # "AttributeError"

\* The caller sends a device-list, detail or location request in this step.
DataRequestSent(p) ==
    \/ task'[p].sent.list > task[p].sent.list
    \/ task'[p].sent.detail > task[p].sent.detail
    \/ task'[p].sent.location > task[p].sent.location

\* C5: every device-list, detail and location request is sent while the
\* instance's token is present and not expired.
C5_DataRequestsWithValidToken ==
    [][\A p \in Procs :
          DataRequestSent(p) => TokenValid(objs'[handle[p].obj])]_vars

\* The instance of the sensor holds a valid token and the server's devices.
Recovered(p) ==
    /\ handle[p].obj # NoObj
    /\ TokenValid(TheObj(p))
    /\ [i \in 1..Len(TheObj(p).devices) |-> TheObj(p).devices[i].imei] = server_devices

\* C6: once every request succeeds, the polled instance eventually holds a
\* present, unexpired token and the server's device list.
C6_PollingRecovers == net_good ~> Recovered("s1")

\* C7: after a device fetch ended by a failed list or detail request, the
\* device list is empty.
C7_FailedDeviceFetchEmpties ==
    (handled.kind \in {"list", "detail"} /\ handled.outcome # "ok")
        => objs[handle[handled.proc].obj].devices = <<>>

\* C8: after a position fetch ended by a failed location request, the
\* position list is empty.
C8_FailedPositionFetchEmpties ==
    (handled.kind = "location" /\ handled.outcome # "ok")
        => objs[handle[handled.proc].obj].positions = <<>>

\* C9: after refresh_token's authentication failed, nothing was raised and the
\* device list and the position list are both empty.
C9_FailedRefreshClearsData ==
    (handled.kind = "auth" /\ handled.op \in {"update", "options"}
        /\ handled.outcome # "ok")
        => /\ task[handled.proc].result # "AttributeError"
           /\ objs[handle[handled.proc].obj].devices = <<>>
           /\ objs[handle[handled.proc].obj].positions = <<>>

\* The caller enters the locked part of async_update in this step and stays
\* in it: refresh_token() has been called, with forced=False.
RunsRefreshToken(p) == update_lock.holder # p /\ update_lock'.holder = p

C11_DueRefreshAuthenticatesOnce ==
    [][/\ (handled'.kind = "call" /\ handled'.op = "refresh"
             /\ RefreshDue(objs[handle[handled'.proc].obj]))
          => /\ task'[handled'.proc].pc = "auth_wait"
             /\ task'[handled'.proc].sent.auth = 1
       /\ (handled'.kind = "auth" /\ handled'.op = "refresh")
          => /\ task'[handled'.proc].pc = "idle"
             /\ task'[handled'.proc].result \in {"refreshed", "failed"}
             /\ task'[handled'.proc].sent.auth = 1
             /\ handled'.outcome = "ok" =>
                   objs'[handle[handled'.proc].obj].token =
                       AccessToken(task[handled'.proc].user, task[handled'.proc].key)]_vars

\* C12: when get_authen_token has just succeeded at time now with an answer
\* {accessToken: T, expiresIn: E}, the stored token is T and the stored expiry
\* is now + E, so that the token is not expired at any time up to now + E.
C12_ExpiryIsNowPlusExpiresIn ==
    (handled.kind = "auth" /\ handled.outcome = "ok")
        => LET o == objs[handle[handled.proc].obj]
           IN /\ o.token = AccessToken(o.user, o.key)
              /\ o.expiresIn = now + handled.expiresIn
              /\ \A time \in now..(now + handled.expiresIn) : ~(time > o.expiresIn)

\* What C13 says stays unchanged on the other instance.
Data(o) ==
    [devices |-> o.devices, positions |-> o.positions, token |-> o.token,
     expiresIn |-> o.expiresIn, attrs |-> o.attrs]

\* The objects registered under two different accountIds.
TwoRegistered(i, j) ==
    \E g, h \in Guids :
        /\ g # h
        /\ i # NoObj /\ j # NoObj
        /\ IOPGPSDataInstances[g] = i
        /\ IOPGPSDataInstances[h] = j

\* C13: with two instances registered under different accountIds, no step of
\* an update() on one of them (its start, its wait for the lock, any answer to
\* its authentication, device or position requests, whatever the outcome)
\* changes the other's device list, position list, token or expiry.
C13_UpdateLeavesOtherInstance ==
    [][\A p \in Procs :
          (task'[p] # task[p] /\ task[p].op = "update")
          => \A j \in 1..Len(objs) :
                TwoRegistered(handle[p].obj, j) => Data(objs'[j]) = Data(objs[j])]_vars

\* C13's case: both accounts are registered, the second instance holds a
\* token, devices and positions, and the update on the first instance has
\* just had a device request fail and emptied its own device list.
C13_Witness ==
    /\ TwoRegistered(handle["s1"].obj, handle["s3"].obj)
    /\ handled.proc = "s1" /\ handled.op = "update"
    /\ handled.kind \in {"list", "detail"} /\ handled.outcome = "api_error"
    /\ TheObj("s1").devices = <<>>
    /\ TheObj("s3").devices # <<>>
    /\ TheObj("s3").positions # <<>>
    /\ TheObj("s3").token # TheObj("s1").token

\* C14: in every update cycle the authentication request comes before any
\* device request and every device request before any location request; the
\* position fetch starts in the step that ends the device fetch, it iterates
\* over exactly the device list that fetch left in the instance, one location
\* request per device in order, and sends none when that list is empty.
C14_RefreshThenDevicesThenPositions ==
    [][\A p \in Procs :
          LET t == task'[p]
              o == objs'[handle'[p].obj]
          IN /\ (t.pc = "auth_wait" /\ t.op = "update")
                   => t.sent.list = 0 /\ t.sent.detail = 0 /\ t.sent.location = 0
             /\ t.pc \in {"list_wait", "detail_wait"}
                   => t.sent.list = 1 /\ t.sent.location = 0
             /\ t.pc = "location_wait"
                   => /\ t.sent.list = 1
                      /\ t.iter = o.devices
                      /\ t.idx \in 1..Len(t.iter)
                      /\ t.sent.location = t.idx
                      /\ Len(t.new_positions) = t.idx - 1
             /\ (task[p].pc \in {"list_wait", "detail_wait"} /\ t.pc = "idle")
                   => o.devices = <<>> /\ o.positions = <<>>
             /\ (task[p].pc \in {"list_wait", "detail_wait"}
                     /\ t.pc \notin {"list_wait", "detail_wait", "idle"})
                   => t.pc = "location_wait" /\ t.idx = 1]_vars

\* C14's case: a cycle that authenticated under the lock, fetched two
\* devices, and is at the location request for the second of them.
C14_Witness ==
    \E p \in Procs :
        /\ task[p].pc = "location_wait"
        /\ update_lock.holder = p
        /\ task[p].sent.auth = 2
        /\ task[p].sent.detail = 2
        /\ task[p].idx = 2
        /\ Len(TheObj(p).devices) = 2

\* The caller is inside the refresh cycle of async_update: past the check
\* under the lock and suspended at one of the cycle's requests.
InCycle(p) ==
    /\ task[p].op = "update"
    /\ task[p].pc \in {"auth_wait", "list_wait", "detail_wait", "location_wait"}

\* C15: two update() calls on the same instance are never inside the refresh
\* cycle together, and whoever is inside it holds the update lock, so the
\* requests of two cycles of one instance cannot interleave.
C15_OneCyclePerInstance ==
    /\ \A p, q \in Procs :
          (p # q /\ InCycle(p) /\ InCycle(q)) => handle[p].obj # handle[q].obj
    /\ \A p \in Procs : InCycle(p) <=> update_lock.holder = p

\* C15's case: one sensor's cycle is suspended at a detail request while the
\* two other sensors of the same instance wait for the lock.
C15_Witness ==
    \E p \in Sensors :
        /\ InCycle(p) /\ task[p].pc = "detail_wait"
        /\ \A q \in Sensors \ {p} :
              task[q].pc = "lock_wait" /\ handle[q].obj = handle[p].obj

\* C16: an update() never waits for the lock while the cycle that holds it
\* belongs to a different instance.
C16_LockScopedToInstance ==
    \A p, q \in Procs :
        ~ /\ task[p].pc = "lock_wait"
          /\ update_lock.holder = q
          /\ InCycle(q)
          /\ handle[q].obj # handle[p].obj

\* What C17 says is changed only under the lock.
Guarded(o) ==
    [token |-> o.token, hasToken |-> Has(o, "token"),
     devices |-> o.devices, positions |-> o.positions]

\* C17: whenever a step of a sensor's update or of the options flow changes
\* an instance's token, device list or position list, the caller making the
\* change holds the update lock when it makes it and works on that instance.
C17_ChangesOnlyUnderLock ==
    [][\A i \in 1..Len(objs) :
          (Guarded(objs'[i]) # Guarded(objs[i]) /\ handled'.op \in {"update", "options"})
          => /\ update_lock.holder = handled'.proc
             /\ handle[handled'.proc].obj = i]_vars

\* C18: the device list of an instance only ever changes to the empty list or,
\* on the last successful detail answer of a fetch, to the complete list of
\* that fetch (one record per device of its list answer); the position list
\* only ever changes to the empty list or, on the last successful location
\* answer of a fetch, to the complete list of that fetch.  So between any two
\* steps a reader finds an empty list or one fetch's complete list, never a
\* list under construction.
C18_ListsReplacedWhole ==
    [][\A i \in 1..Len(objs) :
          /\ objs'[i].devices # objs[i].devices
                => \/ objs'[i].devices = <<>>
                   \/ \E p \in Procs :
                         /\ handle[p].obj = i
                         /\ task[p].pc = "detail_wait"
                         /\ handled'.proc = p /\ handled'.outcome = "ok"
                         /\ task[p].idx = Len(task[p].json)
                         /\ objs'[i].devices =
                               [k \in 1..Len(task[p].json) |-> IOPGPSDevice(task[p].json[k])]
          /\ objs'[i].positions # objs[i].positions
                => \/ objs'[i].positions = <<>>
                   \/ \E p \in Procs :
                         /\ handle[p].obj = i
                         /\ task[p].pc = "location_wait"
                         /\ handled'.proc = p /\ handled'.outcome = "ok"
                         /\ task[p].idx = Len(task[p].iter)
                         /\ objs'[i].positions =
                               [k \in 1..Len(task[p].iter) |->
                                   IOPGPSPositionData(task[p].iter[k].imei)]]_vars

\* C18's case: a device fetch is suspended at its second detail request with
\* one record built, while the instance still shows the complete lists of an
\* earlier fetch.
C18_Witness ==
    \E p \in Procs :
        /\ task[p].pc = "detail_wait"
        /\ Len(task[p].new_devices) = 1
        /\ Len(TheObj(p).devices) = 2
        /\ Len(TheObj(p).positions) = 2

\* C19: when an authentication request fails (an error answer, a timeout, a
\* transport failure, a non-200 answer without an error field), the call
\* raises nothing, a direct get_authen_token returns None, and the stored
\* token and expiry (assigned or not) are what they were before the answer.
C19_FailedAuthenticateChangesNothing ==
    [][(handled'.kind = "auth" /\ handled'.outcome # "ok")
          => LET p == handled'.proc
                 i == handle[p].obj
             IN /\ task'[p].result # "AttributeError"
                /\ handled'.op = "login" =>
                      task'[p].pc = "idle" /\ task'[p].result = "returned_none"
                /\ objs'[i].token = objs[i].token
                /\ objs'[i].expiresIn = objs[i].expiresIn
                /\ objs'[i].attrs = objs[i].attrs]_vars

\* C19's case: a direct get_authen_token on an instance that holds a valid
\* token got a non-200 answer without an error field and returned None, the
\* token still in place.
C19_Witness ==
    /\ handled.kind = "auth" /\ handled.op = "login"
    /\ handled.outcome = "unclassified"
    /\ task[handled.proc].result = "returned_none"
    /\ TokenValid(objs[handle[handled.proc].obj])

\* get_device_ids()
get_device_ids(o) == [k \in 1..Len(o.devices) |-> o.devices[k].imei]

\* get_position(imei) finds a record.
get_position_present(o, imei) ==
    \E k \in 1..Len(o.positions) : o.positions[k].imei = imei

\* C20: when a position fetch has just ended with its last location request
\* answered successfully (any failure would have ended it earlier), the
\* position list has one record per device of the device list, in the same
\* order and with the same imei, so get_position finds a record for every
\* imei of get_device_ids.
C20_OnePositionPerDevice ==
    (handled.kind = "location" /\ handled.outcome = "ok"
        /\ task[handled.proc].pc = "idle")
        => LET o == objs[handle[handled.proc].obj]
           IN /\ Len(o.positions) = Len(o.devices)
              /\ [k \in 1..Len(o.positions) |-> o.positions[k].imei] = get_device_ids(o)
              /\ \A k \in 1..Len(o.devices) :
                    get_position_present(o, get_device_ids(o)[k])

\* C20's case: a position fetch over two devices has just ended with both
\* location requests answered successfully.
C20_Witness ==
    /\ handled.kind = "location" /\ handled.outcome = "ok"
    /\ task[handled.proc].pc = "idle"
    /\ task[handled.proc].result = "updated"
    /\ Len(objs[handle[handled.proc].obj].devices) = 2
    /\ Len(objs[handle[handled.proc].obj].positions) = 2

\* The entry with the given entry_name.
EntryNamed(n) == CHOOSE e \in Entries : e.entry_name = n

\* C21: clean_instances leaves the registry empty; a get_instance that finds
\* its accountId unregistered (as every accountId is after the reset)
\* constructs an object that did not exist before, registers it, and the
\* object holds the entry_name, user and key passed to the call, no token and
\* no expiry, and empty device and position lists; the objects that existed
\* before are untouched.
C21_ResetGivesFreshInstances ==
    [][/\ handled'.op = "clean_instances"
          => \A g \in Guids : IOPGPSDataInstances'[g] = NoObj
       /\ (handled'.op = "get_instance"
             /\ IOPGPSDataInstances[handle'[handled'.proc].guid] = NoObj)
          => LET g == handle'[handled'.proc].guid
                 n == handle'[handled'.proc].obj
             IN /\ n \notin 1..Len(objs)
                /\ n \in 1..Len(objs')
                /\ IOPGPSDataInstances'[g] = n
                /\ objs'[n] = NewIOPGPSData(g, EntryNamed(handled'.entry))
                /\ objs'[n].attrs = {}
                /\ objs'[n].devices = <<>> /\ objs'[n].positions = <<>>
                /\ \A i \in 1..Len(objs) : objs'[i] = objs[i]]_vars

\* C21's case: after a reset the harness asked again for the accountId whose
\* earlier instance holds a token, devices and positions, passing other
\* credentials; it got a second object with those credentials and nothing else.
C21_Witness ==
    /\ handled.op = "get_instance" /\ handled.proc = Harness
    /\ Len(objs) = 2
    /\ handle[Harness].obj = 2
    /\ IOPGPSDataInstances[handle[Harness].guid] = 2
    /\ objs[1].guid = objs[2].guid
    /\ Has(objs[1], "token")
    /\ objs[1].devices # <<>> /\ objs[1].positions # <<>>
    /\ objs[2].entry_name = handled.entry
    /\ objs[2].entry_name # objs[1].entry_name
    /\ objs[2].attrs = {} /\ objs[2].devices = <<>> /\ objs[2].positions = <<>>

\* C22: an update() call in progress has sent at most one authentication
\* request of its own (the options flow's async_update(True) comes after the
\* one request of its refresh_token(True), which the count includes), exactly
\* one device-list request once past the authentication, one detail request
\* per listed device reached so far and one location request per device
\* reached so far; a failed request ends its fetch, so none is sent twice.
C22_NoRequestRepeated ==
    \A p \in Procs :
        LET t == task[p]
        IN /\ t.op = "update" =>
                 t.sent.auth <= (IF t.forced THEN 2 ELSE 1)
           /\ t.op \in {"login", "refresh", "options"} => t.sent.auth <= 1
           /\ t.sent.list <= 1
           /\ t.sent.detail <= Len(t.json)
           /\ t.sent.location <= Len(t.iter)
           /\ t.pc = "auth_wait" => t.sent.list = 0
           /\ t.pc = "list_wait" =>
                 t.sent.list = 1 /\ t.sent.detail = 0 /\ t.sent.location = 0
           /\ t.pc = "detail_wait" =>
                 t.sent.detail = t.idx /\ Len(t.new_devices) = t.idx - 1
           /\ t.pc = "location_wait" =>
                 t.sent.location = t.idx /\ Len(t.new_positions) = t.idx - 1

\* C22's case: a sensor's update has sent its list request, both detail
\* requests and both location requests, one each.
C22_Witness ==
    \E p \in Sensors :
        /\ task[p].pc = "location_wait"
        /\ task[p].sent = [auth |-> 0, list |-> 1, detail |-> 2, location |-> 2]
        /\ Len(task[p].json) = 2

\* max(0, min(100, b))
Clamped(b) ==
    LET m == IF b < 100 THEN b ELSE 100
    IN IF m > 0 THEN m ELSE 0

\* C23: the value native_value returned is max(0, min(100, b)) when the
\* stored level is the integer b (so 0 for -5, 100 for 150, 57 for 57), and
\* None when the stored level is None.
C23_BatteryValueClamped ==
    sensor.read =>
        /\ sensor.battery_level = None => sensor.native_value = None
        /\ sensor.battery_level # None =>
              sensor.native_value = <<Clamped(sensor.battery_level[1])>>
        /\ sensor.battery_level = <<-5>> => sensor.native_value = <<0>>
        /\ sensor.battery_level = <<150>> => sensor.native_value = <<100>>
        /\ sensor.battery_level = <<57>> => sensor.native_value = <<57>>

\* C23's case: a level of 150 was read as 100.
C23_Witness ==
    /\ sensor.read
    /\ sensor.battery_level = <<150>>
    /\ sensor.native_value = <<100>>

\* C24: for every instance that stores a token T, get_standard_headers is a
\* mapping with exactly the entries accessToken, "Bearer " followed by T, and
\* accept, "application/json".
C24_StandardHeaders ==
    \A i \in 1..Len(objs) :
        (Has(objs[i], "token") /\ objs[i].token # NoToken) =>
            LET headers == get_standard_headers(objs[i])
            IN /\ DOMAIN headers = {"accessToken", "accept"}
               /\ headers.accessToken = "Bearer " \o objs[i].token
               /\ headers.accept = "application/json"

\* C25: when the options flow ends (its async_update(True) returns after its
\* fetches) and its refresh_token(True) had authenticated successfully, the
\* stored token is the one issued for the credentials the flow wrote, also
\* when a poll-driven cycle of the instance was in progress meanwhile.
C25_OptionsFlowTokenForNewCredentials ==
    [][(/\ task[Harness].forced /\ task[Harness].auth_ok
        /\ task[Harness].pc # "idle"
        /\ task'[Harness].pc = "idle" /\ task'[Harness].result = "updated")
       => LET o == objs'[handle[Harness].obj]
          IN o.token = AccessToken(o.user, o.key)]_vars

\* C26: whenever no refresh cycle is in progress, every record of an
\* instance's position list carries the imei of a device in its device list.
C26_PositionsBelongToDevices ==
    update_lock.holder = NoProc =>
        \A i \in 1..Len(objs) :
            \A k \in 1..Len(objs[i].positions) :
                \E d \in 1..Len(objs[i].devices) :
                    objs[i].devices[d].imei = objs[i].positions[k].imei

\* C27: a get_instance for an accountId that is registered returns the
\* registered object and changes nothing: every object (credentials, token,
\* expiry, lists) and the registry are as before, whatever entry was passed,
\* and no call or request is started.
C27_GetInstanceOfRegisteredChangesNothing ==
    [][(handled'.op = "get_instance"
          /\ IOPGPSDataInstances[handle'[handled'.proc].guid] # NoObj)
       => /\ handle'[handled'.proc].obj =
                IOPGPSDataInstances[handle'[handled'.proc].guid]
          /\ objs' = objs
          /\ IOPGPSDataInstances' = IOPGPSDataInstances
          /\ task' = task
          /\ update_lock' = update_lock]_vars

\* C27's case: a caller asked for a registered accountId passing an entry
\* other than the one the instance was constructed with, and got the
\* instance with its credentials and its token in place.
C27_Witness ==
    /\ handled.op = "get_instance"
    /\ Len(objs) = 1
    /\ handle[handled.proc].obj = 1
    /\ handle[Harness].obj = 1 /\ handled.proc # Harness
    /\ objs[1].entry_name # handled.entry
    /\ objs[1].user = EntryNamed(objs[1].entry_name).user
    /\ Has(objs[1], "token")

\* C28: with every request terminating, every update() call returns in the
\* end and every caller waiting for the update lock gets past the wait in the
\* end; and the lock is held only by a call that is between acquiring it and
\* returning, so it is free whenever there is no such call, a cycle whose
\* fetches failed or a call that raised included.
C28_UpdateReturnsAndLockIsFreed ==
    /\ [](update_lock.holder # NoProc => InCycle(update_lock.holder))
    /\ \A p \in Sensors :
          /\ (task[p].pc # "idle") ~> (task[p].pc = "idle")
          /\ (task[p].pc = "lock_wait") ~> (task[p].pc # "lock_wait")

\* C28's case: a cycle has just ended on a request that timed out, its call
\* has returned and the lock is free, with the other sensor's call waiting
\* for it.
C28_Witness ==
    \E p, q \in Sensors :
        /\ p # q
        /\ handled.proc = p /\ handled.op = "update"
        /\ handled.outcome = "timeout"
        /\ task[p].pc = "idle" /\ task[p].result = "updated"
        /\ update_lock.holder = NoProc
        /\ update_lock.waiters = <<q>>
        /\ task[q].pc = "lock_wait"
====
